---- MODULE Spec2Model ----
(***************************************************************************)
(* Model of the mail-merge pipeline of src/modules/document_generator.py:  *)
(* the per-thread browser session (_get_browser_context,                   *)
(* _cleanup_thread_browser), generate_pdf and generate_multiple_documents, *)
(* run by several threads on one shared DocumentGenerator.                 *)
(***************************************************************************)
EXTENDS Integers, Sequences, FiniteSets, TLC

\* ------------------------------------------------------------------ bounds
\* Longest record list handed to generate_multiple_documents.
MaxRecords == 3
\* Engine controllers one thread may start between two teardowns.
MaxStarts == 2
\* The same two bounds where two threads run side by side.
MaxThreadRecords == 1
MaxThreadStarts == 1
\* The same two bounds where the content of the written files is followed.
MaxFileRecords == 2
MaxFileStarts == 1

\* The threads that share the DocumentGenerator (Flask request threads).
Threads == {1, 2}

\* ------------------------------------------------------- browser handles
\* A playwright controller, browser or context object: who created it and
\* as the how-manyeth startup of that thread since its last teardown.
None == [by |-> 0, n |-> 0]

Handle(t, k) == [by |-> t, n |-> k]

NoSession == [playwright |-> None, browser |-> None, context |-> None]

\* Where an engine startup can raise (line 81, 82, 91), and where a
\* teardown can raise (line 103, 107, 111).
EngineFailures == {"none", "start", "launch", "context"}

CleanupFailures == {"none", "context", "browser", "playwright"}

\* The page calls of generate_pdf that can raise: set_content (a load
\* timeout included), the wait for the fonts, the settle delay, page.pdf.
PageFailures == {"load", "fonts", "settle", "pdf"}

\* Where one record of a batch can raise: generate_filename_from_pattern,
\* generate_html, the page calls of generate_pdf, or page.pdf returning
\* without having written a file.
RecordFailures == {"none", "name", "html", "nofile"} \cup PageFailures

PdfFailures == {"none", "nofile"} \cup PageFailures

\* The same, with page.pdf returning after it left a file of no bytes.
FileOutcomes == PdfFailures \cup {"empty"}

RecordFileOutcomes == RecordFailures \cup {"empty"}

VARIABLES
    pc,               \* per thread: idle; loop, escaping, returned, raised in a
                      \* batch; pdf_returned, pdf_raised after a single PDF
    n,                \* per thread: len(records) of the running batch
    i,                \* per thread: the loop index of enumerate(records, 1)
    generated_files,  \* per thread: the list the batch returns
    tlocal,           \* self._thread_local: per slot the three attributes
    starts,           \* per thread: controllers started since last teardown
    fs,               \* output paths that exist on disk
    attempted,        \* per thread: indices of the records attempted, in order
    okRecs,           \* per thread: records whose three steps all returned
    escaped,          \* per thread: an exception escaped the record loop
    cleanups,         \* per thread: _cleanup_thread_browser calls of the batch
    cleanupLog,       \* per thread: release steps attempted by the last teardown
    cleanupFail,      \* per thread: the step of the last teardown that raised
    engineFails,      \* per thread: failed engine startups of the running call
    uses,             \* who used or closed whose handle
    pages,            \* per thread: pages it opened and has not closed
    pdfFail,          \* per thread: what went wrong in its single-PDF call
    emptyFiles,       \* the paths of fs whose file has no bytes
    names,            \* per thread: what generate_filename_from_pattern gives
                      \* for each record of the running batch
    args,             \* the arguments of the calls of a function by itself
    results,          \* what those calls returned, in order
    templates,        \* the rows of the templates table, last updated first
    answer,           \* the last call of the template storage and its result
    reqTemplate,      \* the template of the single-PDF request
    reqRecord,        \* its record, as the request carried it
    record_data,      \* the route's dictionary of that record, as it stands
    reqAssets,        \* its logo, signature and service name, and the fonts
    reqHtml,          \* what generate_html gave for it
    phase             \* request, html, failed, rasterized

batchVars == <<pc, n, i, generated_files, tlocal, starts, fs, attempted, okRecs,
               escaped, cleanups, cleanupLog, cleanupFail, engineFails, uses,
               pages, pdfFail, emptyFiles, names>>

renderVars == <<reqTemplate, reqRecord, record_data, reqAssets, reqHtml, phase>>

pureVars == <<args, results>>

storeVars == <<templates, answer>>

vars == <<batchVars, renderVars, pureVars, storeVars>>

\* ------------------------------------------------------------ the session
\* As a plain attribute of the generator, the same for every thread.
SlotShared(t) == 1

\* threading.local(): each thread reads and writes its own attributes.
Slot(t) == t

\* _get_browser_context on the attributes loc of thread t, whose next
\* startup is its k-th; f is the startup step that raises, if any.
\* ok: a context is returned; started: controllers started by the call.
GetBrowserContext(loc, t, k, f) ==
    IF loc.context # None
    THEN [loc |-> loc, ok |-> TRUE, started |-> 0, failed |-> FALSE]
    ELSE CASE f = "start" ->
                [loc |-> loc, ok |-> FALSE, started |-> 0, failed |-> TRUE]
           [] f = "launch" ->
                [loc |-> [loc EXCEPT !.playwright = Handle(t, k)],
                 ok |-> FALSE, started |-> 1, failed |-> TRUE]
           [] f = "context" ->
                [loc |-> [loc EXCEPT !.playwright = Handle(t, k),
                                     !.browser = Handle(t, k)],
                 ok |-> FALSE, started |-> 1, failed |-> TRUE]
           [] OTHER ->
                [loc |-> [playwright |-> Handle(t, k),
                          browser |-> Handle(t, k),
                          context |-> Handle(t, k)],
                 ok |-> TRUE, started |-> 1, failed |-> FALSE]

\* The try block of _cleanup_thread_browser on the attributes loc; f is the
\* release step that raises, if it is reached. The three steps follow each
\* other in one block, so the first one that raises ends it, its attribute
\* and the later ones left as they were. log: the steps attempted, in order.
ReleaseSteps(loc, f) ==
    LET hasC == loc.context # None
        hasB == loc.browser # None
        hasP == loc.playwright # None
        logC == IF hasC THEN <<"context">> ELSE <<>>
        locC == [loc EXCEPT !.context = None]
        logB == IF hasB THEN logC \o <<"browser">> ELSE logC
        locB == [locC EXCEPT !.browser = None]
        logP == IF hasP THEN logB \o <<"playwright">> ELSE logB
        locP == [locB EXCEPT !.playwright = None]
    IN  IF hasC /\ f = "context"
        THEN [loc |-> loc, log |-> logC, raised |-> TRUE, failed |-> "context"]
        ELSE IF hasB /\ f = "browser"
        THEN [loc |-> locC, log |-> logB, raised |-> TRUE, failed |-> "browser"]
        ELSE IF hasP /\ f = "playwright"
        THEN [loc |-> locB, log |-> logP, raised |-> TRUE, failed |-> "playwright"]
        ELSE [loc |-> locP, log |-> logP, raised |-> FALSE, failed |-> "none"]

\* As _cleanup_thread_browser without its except clause.
CleanupThreadBrowserRaising(loc, f) == ReleaseSteps(loc, f)

\* _cleanup_thread_browser: the except clause prints the exception of the
\* try block and the call returns.
CleanupThreadBrowser(loc, f) ==
    [ReleaseSteps(loc, f) EXCEPT !.raised = FALSE]

\* As the finally clause, were the teardown placed after the loop instead.
TeardownOnNormalExit(kind) == kind = "no"

\* The finally clause of generate_multiple_documents: the teardown runs
\* however the try block is left (kind: no exception, or which one).
TeardownOnExit(kind) == TRUE

\* --------------------------------------------------------------- one PDF
\* The output folder of the batches, and the one of the single PDFs.
BatchFolder == "uploads/batch"
UploadFolder == "uploads"

\* As the page calls of generate_pdf, page.close placed after them instead
\* of in a finally block.
PageStepsCloseAfter(pf) ==
    [raised |-> pf \in PageFailures, closed |-> pf \notin PageFailures]

\* The page calls of generate_pdf, pf being the one that raises, if any:
\* the try block of set_content, evaluate, wait_for_timeout and pdf, and
\* its finally block, which closes the page.
PageSteps(pf) == [raised |-> pf \in PageFailures, closed |-> TRUE]

\* generate_pdf(html, path) by thread t on its attributes loc. pf is the
\* page step that fails (set_content/pdf raising, or pdf writing no file),
\* ef the startup step that fails if a startup is needed. The page is
\* opened on the returned context and closed in the finally block.
\* ok: the call returns path; used: the context the page was opened on;
\* open: the pages the call opened and left open; wrote: page.pdf left a
\* file at path; empty: that file has no bytes.
GeneratePdfCall(loc, t, k, path, pf, ef, files) ==
    LET acq == GetBrowserContext(loc, t, k, ef)
        page == PageSteps(pf)
        left == IF page.closed THEN 0 ELSE 1
        wrote == pf \in {"none", "empty"}
        written == IF wrote THEN files \cup {path} ELSE files
    IN  IF ~acq.ok
        THEN [loc |-> acq.loc, started |-> acq.started, engineFailed |-> TRUE,
              used |-> None, files |-> files, ok |-> FALSE, open |-> 0,
              wrote |-> FALSE, empty |-> FALSE]
        ELSE IF page.raised
        THEN [loc |-> acq.loc, started |-> acq.started, engineFailed |-> FALSE,
              used |-> acq.loc.context, files |-> files, ok |-> FALSE,
              open |-> left, wrote |-> FALSE, empty |-> FALSE]
        ELSE [loc |-> acq.loc, started |-> acq.started, engineFailed |-> FALSE,
              used |-> acq.loc.context, files |-> written,
              ok |-> path \in written, open |-> left,
              wrote |-> wrote, empty |-> pf = "empty"]

\* The try block of the record loop for one record: filename, html, pdf,
\* and the append guarded by os.path.exists. named is what
\* generate_filename_from_pattern gives for the record, a name or an
\* exception; rf is what else fails. raised: the block raised.
RecordOutcome(loc, t, k, named, rf, ef, files) ==
    LET path == <<BatchFolder, named.name>>
        pf == IF rf \in FileOutcomes THEN rf ELSE "none"
        pdf == GeneratePdfCall(loc, t, k, path, pf, ef, files)
    IN  IF ~named.ok \/ rf \in {"name", "html"}
        THEN [loc |-> loc, started |-> 0, engineFailed |-> FALSE, used |-> None,
              files |-> files, open |-> 0, wrote |-> FALSE, empty |-> FALSE,
              append |-> FALSE, path |-> path, raised |-> TRUE]
        ELSE [loc |-> pdf.loc, started |-> pdf.started,
              engineFailed |-> pdf.engineFailed, used |-> pdf.used,
              files |-> pdf.files, open |-> pdf.open,
              wrote |-> pdf.wrote, empty |-> pdf.empty,
              append |-> pdf.ok /\ path \in pdf.files,
              path |-> path, raised |-> ~pdf.ok]

\* As the record loop's body without its except clause.
ProcessRecordNoExcept(loc, t, k, named, rf, ef, files) ==
    [out |-> RecordOutcome(loc, t, k, named, rf, ef, files),
     propagates |-> RecordOutcome(loc, t, k, named, rf, ef, files).raised]

\* As the record loop's body, the append moved before generate_pdf.
ProcessRecordAppendFirst(loc, t, k, named, rf, ef, files) ==
    [out |-> [RecordOutcome(loc, t, k, named, rf, ef, files)
                 EXCEPT !.append = rf \notin {"name", "html"}],
     propagates |-> FALSE]

\* The body of the record loop: what the try block did, and the except
\* clause, which prints any Exception and goes on with the next record.
\* propagates: the failure leaves the loop.
ProcessRecord(loc, t, k, named, rf, ef, files) ==
    [out |-> RecordOutcome(loc, t, k, named, rf, ef, files),
     propagates |-> FALSE]

\* Whether the three steps of a record all return: the name is produced,
\* the markup is produced, and generate_pdf returns its path.
RecordSucceeds(loc, t, k, named, rf, ef, files) ==
    /\ named.ok
    /\ rf \notin {"name", "html"}
    /\ GeneratePdfCall(loc, t, k, <<BatchFolder, named.name>>,
                       IF rf \in FileOutcomes THEN rf ELSE "none", ef, files).ok

\* The empty files once a call has written, or not, the file at path.
EmptyAfter(empties, path, wrote, empty) ==
    IF ~wrote THEN empties
    ELSE IF empty THEN empties \cup {path} ELSE empties \ {path}

\* Thread t calls a method of the handle h.
UsesOf(t, h) == IF h = None THEN {} ELSE {[thr |-> t, by |-> h.by]}

\* ------------------------------------------------------------- rendering
\* Longest template, in pieces, and longest field value, in characters.
MaxTemplateLen == 2
MaxValueLen == 1

\* The pieces a template is made of: plain text, an element written by the
\* template's author, the editor's inline colour and empty style attributes,
\* the placeholder of the record's field, an include directive, a
\* reflection-style attribute access, a call of a method of the field's
\* value that empties it, and a line end.
Text == "a"
Element == "<p>"
ColorStyle == "style=\"color: rgb(0, 0, 0);\""
EmptyStyle == " style=\"\" "
Placeholder == "{{ x }}"
Include == "{% include 'other' %}"
Reflect == "{{ x.__class__ }}"
Mutate == "{{ x.clear() }}"
Newline == "\n"

Pieces ==
    {Text, Element, ColorStyle, EmptyStyle, Placeholder, Include, Reflect, Mutate,
     Newline}

\* The characters of a field value; "<", "&" and the quote are the
\* markup-unsafe ones.
ValueChars == {"a", "<", "&", "\""}

UnsafeChars == {"<", ">", "&", "\"", "'"}

SeqsUpTo(S, len) == UNION {[1..m -> S] : m \in 0..len}

\* A record value: a string (its characters), a boolean, a whole number
\* hi * 10^6 + lo with 0 <= lo < 10^6, or a list of one-character strings
\* (a choice list of the table).
StrValue(s) == [type |-> "str", s |-> s, hi |-> 0, lo |-> 0]
ListValue(items) == [type |-> "list", s |-> items, hi |-> 0, lo |-> 0]
NumValue(hi, lo) == [type |-> "num", s |-> <<>>, hi |-> hi, lo |-> lo]
BoolValue(b) == [type |-> "bool", s |-> <<>>, hi |-> 0, lo |-> IF b THEN 1 ELSE 0]

\* a <= b for two numbers.
NumLeq(a, b) == a.hi < b.hi \/ (a.hi = b.hi /\ a.lo <= b.lo)

\* is_timestamp with the two bounds left out of the range.
IsTimestampStrict(value) ==
    /\ value.type = "num"
    /\ ~NumLeq(value, NumValue(946, 684800))
    /\ ~NumLeq(NumValue(4000000, 0), value)

\* is_timestamp: a number that is no boolean, from 946684800 to
\* 4000000000000, both included.
IsTimestamp(value) ==
    /\ value.type = "num"
    /\ NumLeq(NumValue(946, 684800), value)
    /\ NumLeq(value, NumValue(4000000, 0))

Digit(d) == SubSeq(<<"0", "1", "2", "3", "4", "5", "6", "7", "8", "9">>, d + 1, d + 1)

\* The decimal digits of x, at least width of them.
RECURSIVE Digits(_, _)
Digits(x, width) ==
    IF x < 10 /\ width <= 1 THEN Digit(x)
    ELSE Digits(x \div 10, width - 1) \o Digit(x % 10)

\* The calendar date of the day that is z days after 1970-01-01.
CivilFromDays(z) ==
    LET z1 == z + 719468
        era == z1 \div 146097
        doe == z1 - era * 146097
        yoe == (doe - doe \div 1460 + doe \div 36524 - doe \div 146096) \div 365
        doy == doe - (365 * yoe + yoe \div 4 - yoe \div 100)
        mp == (5 * doy + 2) \div 153
        m == IF mp < 10 THEN mp + 3 ELSE mp - 9
    IN  [d |-> doy - (153 * mp + 2) \div 5 + 1,
         m |-> m,
         y |-> yoe + era * 400 + (IF m <= 2 THEN 1 ELSE 0)]

\* The value kept as it is where format_date_fr divides it.
NumUndivided(value) == value

\* value // 1000 for a number.
NumDiv1000(value) ==
    NumValue(value.hi \div 1000, (value.hi % 1000) * 1000 + value.lo \div 1000)

\* The day a moment falls on, counted from 1970-01-01: its seconds over
\* 86400, 10^6 being 11 * 86400 + 49600 and 49600 / 86400 being 31 / 54.
DayOf(timestamp) ==
    11 * timestamp.hi + (31 * timestamp.hi + timestamp.lo \div 1600) \div 54

\* The first value, in milliseconds, whose moment datetime does not hold
\* (year 10000): datetime.fromtimestamp raises on it.
YearTenThousandMs == NumValue(253402300, 800000)

RECURSIVE Concat(_)
Concat(seqs) == IF seqs = <<>> THEN <<>> ELSE Head(seqs) \o Concat(Tail(seqs))

\* str(value), as the template engine prints a value.
StrOf(value) ==
    CASE value.type = "str" -> value.s
      [] value.type = "list" ->
            <<"[">> \o Concat([j \in 1..Len(value.s) |->
                                 (IF j > 1 THEN <<",", " ">> ELSE <<>>)
                                 \o <<"'", value.s[j], "'">>]) \o <<"]">>
      [] value.type = "num" ->
            IF value.hi = 0 THEN Digits(value.lo, 1)
            ELSE Digits(value.hi, 1) \o Digits(value.lo, 6)
      [] value.type = "none" -> <<"N", "o", "n", "e">>
      [] OTHER -> IF value.lo = 1 THEN <<"T", "r", "u", "e">>
                  ELSE <<"F", "a", "l", "s", "e">>

\* format_date_fr giving back a number, the value divided by 1000, where
\* it gives a string.
FormatDateFrDivided(value) == NumDiv1000(value)

\* format_date_fr with the default format on a number: a value above
\* 10000000000 is in milliseconds and divided by 1000, the date of the
\* moment is printed as DD/MM/YYYY; when datetime raises, the except
\* branch returns str(value).
FormatDateFr(value) ==
    LET timestamp == IF ~NumLeq(value, NumValue(10000, 0))
                     THEN NumDiv1000(value) ELSE value
        date == CivilFromDays(DayOf(timestamp))
    IN  IF NumLeq(YearTenThousandMs, value) THEN StrValue(StrOf(value))
        ELSE StrValue(Digits(date.d, 2) \o <<"/">> \o Digits(date.m, 2)
                        \o <<"/">> \o Digits(date.y, 4))

\* convert_timestamps_in_data: a copy of the record with its timestamps
\* replaced by their dates.
ConvertTimestampsInData(data) ==
    [f \in DOMAIN data |->
        IF data[f].type = "bool" THEN data[f]
        ELSE IF IsTimestamp(data[f]) THEN FormatDateFr(data[f])
        ELSE data[f]]

\* markupsafe.escape, character by character.
EscapeChar(c) ==
    CASE c = "&" -> "&amp;"
      [] c = "<" -> "&lt;"
      [] c = ">" -> "&gt;"
      [] c = "\"" -> "&#34;"
      [] c = "'" -> "&#39;"
      [] OTHER -> c

Escape(s) == [j \in 1..Len(s) |-> EscapeChar(s[j])]

\* The environment of __init__: Environment() with its defaults, that is
\* no autoescape, no loader and no sandbox.
Autoescape == FALSE
HasLoader == FALSE
Sandboxed == FALSE

\* What the template engine prints for one piece of a template: the
\* value, the class of the value, the None that list.clear returns.
RenderPiece(piece, data) ==
    CASE piece = Placeholder ->
            IF Autoescape THEN Escape(StrOf(data.x)) ELSE StrOf(data.x)
      [] piece = Reflect ->
            IF data.x.type = "list" THEN <<"<class 'list'>">> ELSE <<"<class 'str'>">>
      [] piece = Mutate -> <<"None">>
      [] OTHER -> <<piece>>

\* Whether the template engine raises on a piece: an include needs a
\* loader, a reflection-style access is refused by a sandbox only.
PieceRaises(piece) ==
    \/ piece = Include /\ ~HasLoader
    \/ piece = Reflect /\ Sandboxed

\* x.clear() on a value that has no such method: the attribute is
\* undefined and the call of it raises.
CallRaises(piece, data) == piece = Mutate /\ data.x.type # "list"

\* The first piece the engine raises on, 0 when it raises on none.
FirstRaise(template_content, data) ==
    IF \E j \in 1..Len(template_content) :
          PieceRaises(template_content[j]) \/ CallRaises(template_content[j], data)
    THEN CHOOSE j \in 1..Len(template_content) :
            /\ PieceRaises(template_content[j]) \/ CallRaises(template_content[j], data)
            /\ \A k \in 1..(j - 1) :
                  ~(PieceRaises(template_content[k]) \/ CallRaises(template_content[k], data))
    ELSE 0

\* Whether the pieces rendered before piece j have emptied the list x.
Cleared(template_content, j, data) ==
    /\ data.x.type = "list"
    /\ \E k \in 1..(j - 1) : template_content[k] = Mutate

\* The source as the engine's lexer takes it: with keep_trailing_newline
\* at its default a single line end at the end of the source is dropped.
Lexed(template_content) ==
    IF template_content # <<>> /\ template_content[Len(template_content)] = Newline
    THEN SubSeq(template_content, 1, Len(template_content) - 1)
    ELSE template_content

\* The caller's record once render_template is over: converted_data is a
\* new dictionary of the same value objects, so a list that the template
\* emptied, before the engine raised if it did, is empty for the caller.
DataAfterRender(template_content, data) ==
    LET stop == FirstRaise(template_content, data)
        last == IF stop = 0 THEN Len(template_content) + 1 ELSE stop
    IN  IF Cleared(template_content, last, data)
        THEN [data EXCEPT !.x = ListValue(<<>>)]
        ELSE data

\* render_template: the record's timestamps converted, the template
\* compiled with from_string and rendered; an exception is printed and
\* raised again.
RenderTemplate(template_content, data) ==
    LET converted_data == ConvertTimestampsInData(data)
        source == Lexed(template_content)
        stop == FirstRaise(source, converted_data)
    IN  IF stop # 0
        THEN [ok |-> FALSE, markup |-> <<>>,
              error |-> IF source[stop] = Reflect THEN "SecurityError"
                        ELSE IF source[stop] = Mutate THEN "UndefinedError"
                        ELSE "TypeError"]
        ELSE [ok |-> TRUE,
              markup |-> Concat([j \in 1..Len(source) |->
                                   RenderPiece(source[j],
                                       IF Cleared(source, j, converted_data)
                                       THEN [converted_data EXCEPT !.x = ListValue(<<>>)]
                                       ELSE converted_data)]),
              error |-> "none"]

\* The rendered content left as the engine gave it.
MarkupUncleaned(markup) == markup

\* The two substitutions generate_html makes in the rendered content: the
\* editor's inline colour is removed, an empty style attribute with the
\* blanks around it becomes one blank.
CleanMarkup(markup) ==
    LET kept == SelectSeq(markup, LAMBDA c : c # ColorStyle)
    IN  [j \in 1..Len(kept) |-> IF kept[j] = EmptyStyle THEN " " ELSE kept[j]]

\* None, or the empty string: no logo, no signature, no service name.
NoAsset == ""

\* generate_entete_with_logo: nothing without a logo and a service name,
\* otherwise the header table with the ones given, and the rule line.
GenerateEnteteWithLogo(logo, service_name) ==
    IF logo = NoAsset /\ service_name = NoAsset THEN <<>>
    ELSE <<"<div header>">>
         \o (IF logo # NoAsset THEN <<"<img src=", logo, " alt=Logo>">> ELSE <<>>)
         \o (IF service_name # NoAsset
             THEN <<"<div service>", service_name, "</div>">> ELSE <<>>)
         \o <<"</div><hr>">>

\* generate_signature: nothing without a signature, otherwise its block.
GenerateSignature(signature) ==
    IF signature = NoAsset THEN <<>>
    ELSE <<"<div class=signature-container><img src=", signature, "></div>">>

\* get_font_face_css: nothing when no font file was found at construction.
GetFontFaceCss(fonts) == IF fonts THEN <<"@font-face">> ELSE <<>>

NoHtml == [ok |-> FALSE, markup |-> <<>>, body |-> <<>>, error |-> "none"]

\* generate_html: the rendered and cleaned content inside the document
\* shell; an exception of render_template is printed and raised again.
\* body: the rendered content as it stands in the document.
GenerateHtml(template_content, template_css, data, a) ==
    LET r == RenderTemplate(template_content, data)
        rendered_content == CleanMarkup(r.markup)
    IN  IF ~r.ok
        THEN [ok |-> FALSE, markup |-> <<>>, body |-> <<>>, error |-> r.error]
        ELSE [ok |-> TRUE,
              markup |-> <<"<!DOCTYPE html><html><head><style>">>
                         \o GetFontFaceCss(a.fonts)
                         \o <<"base stylesheet", template_css, "</style></head><body>">>
                         \o GenerateEnteteWithLogo(a.logo, a.service_name)
                         \o <<"<div class=contenu>">>
                         \o rendered_content
                         \o GenerateSignature(a.signature)
                         \o <<"</div></body></html>">>,
              body |-> rendered_content,
              error |-> "none"]

\* ------------------------------------------------------------- filenames
\* Most pieces a filename pattern is drawn from, and how far around the
\* length limit the long patterns go.
MaxPatternPieces == 2
Margin == 5

\* The characters that count: blanks (what \s matches and strip removes),
\* the control characters among the inputs and the results (codes 0 to 31:
\* tab, newline, NUL, SOH, backspace), the ones sanitize_filename replaces.
Whitespace == {" ", "\t", "\n"}

ControlChars == {"\t", "\n", "^@", "^A", "^H"}

InvalidChars == {"<", ">", ":", "\"", "/", "\\", "|", "?", "*"} \cup ControlChars

UpperCase == {"A", "C", "D", "F", "N", "P", "T", "U"}

Letters == {"a", "b", "c", "d", "e", "f", "i", "l", "m", "n", "o", "p", "r",
            "s", "t", "u", "v", "x", "y", "z"} \cup UpperCase

\* str.lower on one character, and on a string.
LowerChar(c) ==
    CASE c = "A" -> "a" [] c = "C" -> "c" [] c = "D" -> "d" [] c = "F" -> "f"
      [] c = "N" -> "n" [] c = "P" -> "p" [] c = "T" -> "t" [] c = "U" -> "u"
      [] OTHER -> c

Lower(s) == [j \in 1..Len(s) |-> LowerChar(s[j])]

\* s without its leading, and without its trailing, characters of set.
LStrip(s, set) ==
    LET lead == CHOOSE k \in 0..Len(s) :
                    /\ \A j \in 1..k : s[j] \in set
                    /\ (k = Len(s) \/ s[k + 1] \notin set)
    IN  SubSeq(s, lead + 1, Len(s))

RStrip(s, set) ==
    LET last == CHOOSE k \in 0..Len(s) :
                    /\ \A j \in (k + 1)..Len(s) : s[j] \in set
                    /\ (k = 0 \/ s[k] \notin set)
    IN  SubSeq(s, 1, last)

\* str.strip(), and str.strip('_').
Strip(s, set) == RStrip(LStrip(s, set), set)

StartsWith(s, prefix) ==
    Len(prefix) <= Len(s) /\ SubSeq(s, 1, Len(prefix)) = prefix

EndsWith(s, suffix) ==
    Len(suffix) <= Len(s) /\ SubSeq(s, Len(s) - Len(suffix) + 1, Len(s)) = suffix

\* The strings seqs[lo], ..., seqs[hi] one after the other.
RECURSIVE Flatten(_, _, _)
Flatten(seqs, lo, hi) ==
    IF lo > hi THEN <<>>
    ELSE IF lo = hi THEN seqs[lo]
    ELSE Flatten(seqs, lo, (lo + hi) \div 2)
         \o Flatten(seqs, (lo + hi) \div 2 + 1, hi)

\* Every occurrence of the placeholder old in s replaced by new:
\* str.replace, and re.sub with a pattern that is a literal. A placeholder
\* starts with the one opening brace it has, so no two of its occurrences
\* overlap.
Replace(s, old, new) ==
    LET starts_at(j) == /\ j >= 1
                        /\ j + Len(old) - 1 <= Len(s)
                        /\ SubSeq(s, j, j + Len(old) - 1) = old
        inside(j) == \E k \in 1..(Len(old) - 1) : starts_at(j - k)
        parts == [j \in 1..Len(s) |->
                    IF starts_at(j) THEN new
                    ELSE IF inside(j) THEN <<>> ELSE <<s[j]>>]
    IN  Flatten(parts, 1, Len(s))

\* Every run of characters of set in s replaced by the one character c:
\* re.sub(r'\s+', '_', s) and re.sub(r'_+', '_', s).
CollapseRuns(s, set, c) ==
    LET first == SelectSeq([j \in 1..Len(s) |-> j],
                           LAMBDA j : s[j] \notin set \/ j = 1 \/ s[j - 1] \notin set)
    IN  [k \in 1..Len(first) |->
            IF s[first[k]] \in set THEN c ELSE s[first[k]]]

\* The length limit of sanitize_filename, and what it keeps of the stem.
MaxNameLength == 200
KeptNameLength == 195

\* The place of the last "." of s, 0 if it has none.
LastDot(s) ==
    IF \E j \in 1..Len(s) : s[j] = "."
    THEN CHOOSE j \in 1..Len(s) :
            s[j] = "." /\ \A k \in (j + 1)..Len(s) : s[k] # "."
    ELSE 0

\* sanitize_filename without the substitution of its line 19.
SanitizeFilenameKeepInvalid(filename) ==
    LET stripped == Strip(filename, Whitespace)
        unblanked == [j \in 1..Len(stripped) |->
                        IF stripped[j] = " " THEN "_" ELSE stripped[j]]
        collapsed == CollapseRuns(unblanked, {"_"}, "_")
    IN  Strip(collapsed, {"_"})

\* sanitize_filename.
SanitizeFilename(filename) ==
    LET replaced == [j \in 1..Len(filename) |->
                        IF filename[j] \in InvalidChars THEN "_" ELSE filename[j]]
        stripped == Strip(replaced, Whitespace)
        unblanked == [j \in 1..Len(stripped) |->
                        IF stripped[j] = " " THEN "_" ELSE stripped[j]]
        collapsed == CollapseRuns(unblanked, {"_"}, "_")
        cleaned == Strip(collapsed, {"_"})
        dot == LastDot(cleaned)
        name == IF dot = 0 THEN cleaned ELSE SubSeq(cleaned, 1, dot - 1)
        ext == IF dot = 0 THEN <<>> ELSE SubSeq(cleaned, dot + 1, Len(cleaned))
        kept == SubSeq(name, 1, IF Len(name) < KeptNameLength
                                 THEN Len(name) ELSE KeptNameLength)
    IN  IF Len(cleaned) > MaxNameLength
        THEN kept \o (IF ext # <<>> THEN <<".">> \o ext ELSE <<>>)
        ELSE cleaned

\* None as a record value.
NoneValue == [type |-> "none", s |-> <<>>, hi |-> 0, lo |-> 0]

\* not value: None, the empty string, zero and False.
Falsy(value) ==
    CASE value.type = "none" -> TRUE
      [] value.type \in {"str", "list"} -> value.s = <<>>
      [] value.type = "num" -> value.hi = 0 /\ value.lo = 0
      [] OTHER -> value.lo = 0

Vide == <<"v", "i", "d", "e">>

\* The replacement string of re.sub as the re module expands it before any
\* substitution: a backslash with n, t, b or a backslash is that character,
\* with 0 it is NUL, with another digit a reference to a group the pattern
\* has not, with another letter or at the end of the string an error;
\* before any other character it stays. (No \g, and no escape of three
\* octal digits, is among the inputs.)
RECURSIVE ExpandTemplate(_)
ExpandTemplate(repl) ==
    IF repl = <<>> THEN [ok |-> TRUE, s |-> <<>>]
    ELSE IF Head(repl) # "\\"
    THEN LET rest == ExpandTemplate(Tail(repl))
         IN  [ok |-> rest.ok, s |-> <<Head(repl)>> \o rest.s]
    ELSE IF Len(repl) = 1 THEN [ok |-> FALSE, s |-> <<>>]
    ELSE LET c == repl[2]
             rest == ExpandTemplate(SubSeq(repl, 3, Len(repl)))
             one == CASE c = "n" -> <<"\n">>
                      [] c = "t" -> <<"\t">>
                      [] c = "b" -> <<"^H">>
                      [] c = "0" -> <<"^@">>
                      [] c = "\\" -> <<"\\">>
                      [] OTHER -> <<"\\", c>>
         IN  IF c \in (Letters \ {"n", "t", "b"}) \cup
                      {"1", "2", "3", "4", "5", "6", "7", "8", "9"}
             THEN [ok |-> FALSE, s |-> <<>>]
             ELSE [ok |-> rest.ok, s |-> one \o rest.s]

\* The loop of generate_filename_from_pattern over data.items(), in the
\* record's order: each {key} of filename replaced by str(value or 'vide')
\* stripped, given to re.sub as its replacement string. The keys are column
\* identifiers. ok: no re.sub raised.
RECURSIVE SubstituteFields(_, _)
SubstituteFields(filename, items) ==
    IF items = <<>> THEN [ok |-> TRUE, s |-> filename]
    ELSE LET item == Head(items)
             str_value == Strip(IF Falsy(item.value) THEN Vide
                                ELSE StrOf(item.value), Whitespace)
             repl == ExpandTemplate(str_value)
         IN  IF ~repl.ok THEN [ok |-> FALSE, s |-> <<>>]
             ELSE SubstituteFields(
                    Replace(filename, <<"{">> \o item.key \o <<"}">>, repl.s),
                    Tail(items))

\* One (key, value) of data.items().
Item(key, value) == [key |-> key, value |-> value]

\* index=None.
NoIndex == -1

Document == <<"d", "o", "c", "u", "m", "e", "n", "t">>

IndexPlaceholder == <<"{", "i", "n", "d", "e", "x", "}">>

DotPdf == <<".", "p", "d", "f">>

\* The last step of generate_filename_from_pattern: ".pdf" is added to a
\* name that does not end in it, whatever the case of its letters.
WithExtension(filename) ==
    IF EndsWith(Lower(filename), DotPdf) THEN filename ELSE filename \o DotPdf

\* generate_filename_from_pattern; pattern <<>> is None or the empty string.
\* ok: the call returns name; otherwise a re.sub of it raised.
GenerateFilenameFromPattern(pattern, data, index) ==
    LET given == IF Strip(pattern, Whitespace) = <<>> THEN Document ELSE pattern
        stripped == Strip(given, Whitespace)
        indexed == IF index # NoIndex
                   THEN Replace(stripped, IndexPlaceholder, Digits(index, 1))
                   ELSE stripped
        filled == SubstituteFields(indexed, data)
        joined == CollapseRuns(filled.s, Whitespace, "_")
        filename == SanitizeFilename(joined)
    IN  IF ~filled.ok THEN [ok |-> FALSE, name |-> <<>>]
        ELSE [ok |-> TRUE, name |-> WithExtension(filename)]

\* filename_pattern="document_{index}", the default of
\* generate_multiple_documents.
DefaultPattern ==
    <<"d", "o", "c", "u", "m", "e", "n", "t", "_", "{", "i", "n", "d", "e", "x", "}">>

\* What generate_filename_from_pattern gives for record idx of a batch
\* that has the default pattern: the record has no part in it.
DefaultName(idx) == GenerateFilenameFromPattern(DefaultPattern, <<>>, idx)

\* The destination of record idx of such a batch: the output folder
\* joined with that name.
OutputPath(idx) == <<BatchFolder, DefaultName(idx).name>>

\* The patterns and the records of the batches whose files are followed:
\* the default pattern and one without a placeholder; a record of a plain
\* value and one of a value that re.sub does not take as a replacement.
FilePatterns == {DefaultPattern, <<"d", "o", "c">>}

FileRecords ==
    {<<Item(<<"x">>, StrValue(<<"a">>))>>,
     <<Item(<<"x">>, StrValue(<<"C", ":", "\\", "U">>))>>}

\* ------------------------------------------------------------------ Init
\* No call is running, no session exists, the output folders are empty.
BatchInit ==
    /\ pc = [t \in Threads |-> "idle"]
    /\ n = [t \in Threads |-> 0]
    /\ i = [t \in Threads |-> 0]
    /\ generated_files = [t \in Threads |-> <<>>]
    /\ tlocal = [s \in Threads |-> NoSession]
    /\ starts = [t \in Threads |-> 0]
    /\ fs = {}
    /\ attempted = [t \in Threads |-> <<>>]
    /\ okRecs = [t \in Threads |-> {}]
    /\ escaped = [t \in Threads |-> "no"]
    /\ cleanups = [t \in Threads |-> 0]
    /\ cleanupLog = [t \in Threads |-> <<>>]
    /\ cleanupFail = [t \in Threads |-> "none"]
    /\ engineFails = [t \in Threads |-> 0]
    /\ uses = {}
    /\ pages = [t \in Threads |-> 0]
    /\ pdfFail = [t \in Threads |-> "none"]
    /\ emptyFiles = {}
    /\ names = [t \in Threads |-> <<>>]

\* No single-PDF request is being served.
NoRequest ==
    /\ reqTemplate = <<>>
    /\ reqRecord = [x |-> StrValue(<<>>)]
    /\ record_data = reqRecord
    /\ reqAssets = [logo |-> NoAsset, signature |-> NoAsset, service_name |-> NoAsset,
                 fonts |-> FALSE]
    /\ reqHtml = NoHtml
    /\ phase = "request"

\* No function is called by itself.
NoCall ==
    /\ args = <<>>
    /\ results = <<>>

\* The templates table is empty and the storage has not been called.
NoAnswer == [op |-> "none", doc |-> <<>>, found |-> {}, out |-> <<>>]

NoStore ==
    /\ templates = <<>>
    /\ answer = NoAnswer

Init == BatchInit /\ NoRequest /\ NoCall /\ NoStore

\* The inputs of generate_filename_from_pattern: patterns made of a few
\* pieces, the pattern of the documentation, and long ones around the
\* length limit; records of one or two fields; no index, or an index.
NamePieces ==
    {<<"d", "o", "c">>, <<"{", "x", "}">>, IndexPlaceholder, <<" ">>, <<"_">>,
     <<".", "P", "D", "F">>, <<"/">>, <<".">>}

Run(len) == [j \in 1..len |-> "a"]

ExamplePattern ==
    <<"i", "n", "v", "o", "i", "c", "e", "_", "{", "c", "l", "i", "e", "n", "t", "}",
      "_", "{", "i", "n", "d", "e", "x", "}">>

NamePatterns ==
    {Concat(ps) : ps \in SeqsUpTo(NamePieces, MaxPatternPieces)}
    \cup {ExamplePattern}
    \cup UNION {{Run(len), Run(len) \o DotPdf, <<"a", ".">> \o Run(len)} :
                   len \in (MaxNameLength - Margin)..(MaxNameLength + Margin)}

Acme == <<"A", "c", "m", "e">>

NameValues ==
    {StrValue(Acme), StrValue(<<>>), StrValue(<<" ", " ">>), NoneValue,
     NumValue(0, 0), NumValue(0, 7), BoolValue(FALSE), BoolValue(TRUE),
     StrValue(<<"a", "/", "b">>), StrValue(<<"C", ":", "\\", "U">>),
     StrValue(<<"a", "\\", "n", "b">>), StrValue(<<".", "P", "D", "F">>),
     StrValue(<<"{", "y", "}">>)}

NameRecords ==
    {<<>>}
    \cup {<<Item(<<"x">>, v)>> : v \in NameValues}
    \cup {<<Item(<<"x">>, StrValue(<<"{", "y", "}">>)), Item(<<"y">>, StrValue(<<"z">>))>>,
          <<Item(<<"c", "l", "i", "e", "n", "t">>, StrValue(Acme))>>}

NameIndexes == {NoIndex, 1, 3}

InitName ==
    /\ BatchInit
    /\ NoRequest
    /\ args \in [pattern : NamePatterns, data : NameRecords, index : NameIndexes]
    /\ results = <<>>
    /\ NoStore

\* The values of the records whose timestamps are converted: numbers at
\* and around the two bounds of is_timestamp and the threshold of
\* format_date_fr, the two of the documentation, small ones, booleans,
\* strings and None.
DateNumbers ==
    {NumValue(0, 0), NumValue(0, 1), NumValue(946, 684799), NumValue(946, 684800),
     NumValue(946, 684801), NumValue(1700, 0), NumValue(4000, 0), NumValue(4000, 1),
     NumValue(10000, 0), NumValue(10000, 1), NumValue(20000, 0),
     NumValue(1700000, 0), NumValue(3999999, 999999), NumValue(4000000, 0),
     NumValue(4000000, 1)}

DateValues ==
    DateNumbers \cup {BoolValue(FALSE), BoolValue(TRUE), NoneValue, StrValue(<<>>),
                      StrValue(<<"1", "7", "0", "0", "0", "0", "0", "0", "0", "0">>)}

\* A record of two fields is about to be converted.
InitDates ==
    /\ BatchInit
    /\ NoRequest
    /\ args \in [data : [{"x", "y"} -> DateValues]]
    /\ results = <<>>
    /\ NoStore

\* The records of the single-PDF requests: one field, a string or a list.
RenderRecords ==
    {[x |-> StrValue(v)] : v \in SeqsUpTo(ValueChars, MaxValueLen)}
    \cup {[x |-> ListValue(<<"a">>)]}

\* A single-PDF request has come in, with any template, record and assets.
InitRender ==
    /\ BatchInit
    /\ reqTemplate \in SeqsUpTo(Pieces, MaxTemplateLen)
    /\ reqRecord \in RenderRecords
    /\ record_data = reqRecord
    /\ reqAssets \in [logo : {NoAsset, "data:logo"}, signature : {NoAsset, "data:sig"},
                    service_name : {NoAsset, "Service"}, fonts : BOOLEAN]
    /\ reqHtml = NoHtml
    /\ phase = "request"
    /\ NoCall
    /\ NoStore

\* --------------------------------------------------------------- actions
\* generate_multiple_documents up to the first iteration: the output
\* folder is made, generated_files = [], the try block is entered. named
\* is what the filename function gives for each of the records.
BatchBegin(t, named) ==
    /\ UNCHANGED <<renderVars, pureVars, storeVars>>
    /\ pc[t] = "idle"
    /\ n' = [n EXCEPT ![t] = Len(named)]
    /\ names' = [names EXCEPT ![t] = named]
    /\ pc' = [pc EXCEPT ![t] = "loop"]
    /\ i' = [i EXCEPT ![t] = 1]
    /\ generated_files' = [generated_files EXCEPT ![t] = <<>>]
    /\ UNCHANGED <<tlocal, starts, fs, attempted, okRecs, escaped, cleanups,
                   cleanupLog, cleanupFail, engineFails, uses, pages, pdfFail,
                   emptyFiles>>

\* A batch on any list of at most maxLen records, the pattern left to its
\* default.
BatchStart(t, maxLen) ==
    \E len \in 0..maxLen : BatchBegin(t, [j \in 1..len |-> DefaultName(j)])

\* A batch on a list of records and a pattern of the caller's.
BatchStartPattern(t, maxLen) ==
    \E pattern \in FilePatterns, records \in SeqsUpTo(FileRecords, maxLen) :
        BatchBegin(t, [j \in 1..Len(records) |->
                          GenerateFilenameFromPattern(pattern, records[j], j)])

\* One iteration of the record loop, with its except clause.
BatchRecord(t, maxStarts, outcomes) ==
    /\ UNCHANGED <<renderVars, pureVars, storeVars>>
    /\ pc[t] = "loop"
    /\ i[t] <= n[t]
    /\ \E rf \in outcomes, ef \in EngineFailures :
         LET p == ProcessRecord(tlocal[Slot(t)], t, starts[t] + 1, names[t][i[t]],
                                rf, ef, fs)
             r == p.out
             good == RecordSucceeds(tlocal[Slot(t)], t, starts[t] + 1, names[t][i[t]],
                                    rf, ef, fs)
         IN  /\ starts[t] + r.started <= maxStarts
             /\ tlocal' = [tlocal EXCEPT ![Slot(t)] = r.loc]
             /\ starts' = [starts EXCEPT ![t] = @ + r.started]
             /\ fs' = r.files
             /\ emptyFiles' = EmptyAfter(emptyFiles, r.path, r.wrote, r.empty)
             /\ generated_files' =
                  [generated_files EXCEPT ![t] =
                     IF r.append THEN Append(@, r.path) ELSE @]
             /\ okRecs' = [okRecs EXCEPT ![t] = IF good THEN @ \cup {i[t]} ELSE @]
             /\ engineFails' =
                  [engineFails EXCEPT ![t] = IF r.engineFailed THEN @ + 1 ELSE @]
             /\ uses' = uses \cup UsesOf(t, r.used)
             /\ pages' = [pages EXCEPT ![t] = @ + r.open]
             /\ pc' = [pc EXCEPT ![t] = IF p.propagates THEN "escaping" ELSE @]
             /\ escaped' = [escaped EXCEPT ![t] = IF p.propagates THEN "record" ELSE @]
    /\ attempted' = [attempted EXCEPT ![t] = Append(@, i[t])]
    /\ i' = [i EXCEPT ![t] = @ + 1]
    /\ UNCHANGED <<n, cleanups, cleanupLog, cleanupFail, pdfFail, names>>

\* An exception that is no Exception (KeyboardInterrupt, SystemExit) or
\* that the iteration of records raises leaves the loop for the finally.
BatchEscape(t) ==
    /\ UNCHANGED <<renderVars, pureVars, storeVars>>
    /\ pc[t] = "loop"
    /\ pc' = [pc EXCEPT ![t] = "escaping"]
    /\ escaped' = [escaped EXCEPT ![t] = "loop"]
    /\ UNCHANGED <<n, i, generated_files, tlocal, starts, fs, attempted, okRecs,
                   cleanups, cleanupLog, cleanupFail, engineFails, uses, pages,
                   pdfFail, emptyFiles, names>>

\* The finally block: _cleanup_thread_browser, then the return of
\* generated_files, or the pending exception going on to the caller.
BatchFinally(t) ==
    /\ UNCHANGED <<renderVars, pureVars, storeVars>>
    /\ \/ pc[t] = "loop" /\ i[t] > n[t]
       \/ pc[t] = "escaping"
    /\ IF TeardownOnExit(escaped[t])
       THEN /\ \E cf \in CleanupFailures :
                 LET c == CleanupThreadBrowser(tlocal[Slot(t)], cf)
                     held == tlocal[Slot(t)]
                 IN  /\ tlocal' = [tlocal EXCEPT ![Slot(t)] = c.loc]
                     /\ cleanupLog' = [cleanupLog EXCEPT ![t] = c.log]
                     /\ cleanupFail' = [cleanupFail EXCEPT ![t] = c.failed]
                     /\ pc' = [pc EXCEPT ![t] =
                                 IF escaped[t] # "no" \/ c.raised
                                 THEN "raised" ELSE "returned"]
                     /\ uses' = uses \cup
                          UNION {UsesOf(t, held[c.log[j]]) : j \in 1..Len(c.log)}
            /\ cleanups' = [cleanups EXCEPT ![t] = @ + 1]
            /\ starts' = [starts EXCEPT ![t] = 0]
       ELSE /\ pc' = [pc EXCEPT ![t] = "raised"]
            /\ UNCHANGED <<tlocal, cleanupLog, cleanupFail, uses, cleanups, starts>>
    /\ UNCHANGED <<n, i, generated_files, fs, attempted, okRecs, escaped,
                   engineFails, pages, pdfFail, emptyFiles, names>>

\* The call is over: the /api/generate-multiple route has the list, zips
\* the listed files that exist and removes them, or has the exception.
BatchReturn(t) ==
    /\ UNCHANGED <<renderVars, pureVars, storeVars>>
    /\ pc[t] \in {"returned", "raised"}
    /\ pc' = [pc EXCEPT ![t] = "idle"]
    /\ fs' = IF pc[t] = "returned"
             THEN fs \ {generated_files[t][j] : j \in 1..Len(generated_files[t])}
             ELSE fs
    /\ emptyFiles' = emptyFiles \cap fs'
    /\ n' = [n EXCEPT ![t] = 0]
    /\ names' = [names EXCEPT ![t] = <<>>]
    /\ i' = [i EXCEPT ![t] = 0]
    /\ generated_files' = [generated_files EXCEPT ![t] = <<>>]
    /\ attempted' = [attempted EXCEPT ![t] = <<>>]
    /\ okRecs' = [okRecs EXCEPT ![t] = {}]
    /\ escaped' = [escaped EXCEPT ![t] = "no"]
    /\ cleanups' = [cleanups EXCEPT ![t] = 0]
    /\ cleanupLog' = [cleanupLog EXCEPT ![t] = <<>>]
    /\ cleanupFail' = [cleanupFail EXCEPT ![t] = "none"]
    /\ engineFails' = [engineFails EXCEPT ![t] = 0]
    /\ uses' = {u \in uses : u.thr # t}
    /\ UNCHANGED <<tlocal, starts, pages, pdfFail>>

\* The path a standalone generate_pdf call writes: the upload folder
\* joined with the name the route's default pattern gives.
SinglePath == <<UploadFolder, GenerateFilenameFromPattern(Document, <<>>, NoIndex).name>>

\* A standalone generate_pdf call, as the /api/generate-pdf route makes it:
\* no teardown follows it.
GeneratePdfRun(t, maxStarts, outcomes) ==
    /\ pc[t] = "idle"
    /\ \E pf \in outcomes, ef \in EngineFailures :
         LET r == GeneratePdfCall(tlocal[Slot(t)], t, starts[t] + 1, SinglePath, pf, ef, fs)
         IN  /\ starts[t] + r.started <= maxStarts
             /\ tlocal' = [tlocal EXCEPT ![Slot(t)] = r.loc]
             /\ starts' = [starts EXCEPT ![t] = @ + r.started]
             /\ fs' = r.files
             /\ emptyFiles' = EmptyAfter(emptyFiles, SinglePath, r.wrote, r.empty)
             /\ engineFails' = [engineFails EXCEPT ![t] = IF r.engineFailed THEN 1 ELSE 0]
             /\ pc' = [pc EXCEPT ![t] = IF r.ok THEN "pdf_returned" ELSE "pdf_raised"]
             /\ uses' = uses \cup UsesOf(t, r.used)
             /\ pages' = [pages EXCEPT ![t] = @ + r.open]
             /\ pdfFail' = [pdfFail EXCEPT ![t] =
                                IF r.engineFailed THEN "engine" ELSE pf]
    /\ UNCHANGED <<n, i, generated_files, attempted, okRecs, escaped,
                   cleanups, cleanupLog, cleanupFail, names>>

GeneratePdf(t, maxStarts) ==
    /\ phase = "request"
    /\ GeneratePdfRun(t, maxStarts, PdfFailures)
    /\ UNCHANGED <<renderVars, pureVars, storeVars>>

\* The same call where the content of the written file is followed.
GeneratePdfFile(t, maxStarts) ==
    /\ phase = "request"
    /\ GeneratePdfRun(t, maxStarts, FileOutcomes)
    /\ UNCHANGED <<renderVars, pureVars, storeVars>>

\* The route has the path, or the exception: the call is over.
PdfReturn(t) ==
    /\ UNCHANGED <<renderVars, pureVars, storeVars>>
    /\ pc[t] \in {"pdf_returned", "pdf_raised"}
    /\ pc' = [pc EXCEPT ![t] = "idle"]
    /\ engineFails' = [engineFails EXCEPT ![t] = 0]
    /\ uses' = {u \in uses : u.thr # t}
    /\ pdfFail' = [pdfFail EXCEPT ![t] = "none"]
    /\ UNCHANGED <<n, i, generated_files, tlocal, starts, fs, attempted, okRecs,
                   escaped, cleanups, cleanupLog, cleanupFail, pages, emptyFiles,
                   names>>

\* The /api/generate-pdf route up to its generate_html call: a markup, or
\* the exception, which the route answers with an error.
RouteGenerateHtml ==
    /\ phase = "request"
    /\ reqTemplate # <<>>
    /\ reqHtml' = GenerateHtml(reqTemplate, "css", record_data, reqAssets)
    /\ record_data' = DataAfterRender(Lexed(reqTemplate), record_data)
    /\ phase' = IF reqHtml'.ok THEN "html" ELSE "failed"
    /\ UNCHANGED <<batchVars, reqTemplate, reqRecord, reqAssets, pureVars, storeVars>>

\* The route's generate_pdf call on the markup it has.
RouteGeneratePdf ==
    /\ phase = "html"
    /\ GeneratePdfRun(1, MaxStarts, PdfFailures)
    /\ phase' = "rasterized"
    /\ UNCHANGED <<reqTemplate, reqRecord, record_data, reqAssets, reqHtml, pureVars,
                   storeVars>>

NextRender ==
    \/ RouteGenerateHtml
    \/ RouteGeneratePdf

SpecRender == InitRender /\ [][NextRender]_vars

\* generate_filename_from_pattern called on the arguments, a first and a
\* second time.
NameCall ==
    /\ Len(results) < 2
    /\ results' = Append(results,
                     GenerateFilenameFromPattern(args.pattern, args.data, args.index))
    /\ UNCHANGED <<batchVars, renderVars, storeVars, args>>

NextName == NameCall

\* 1000 * value for a number.
Times1000(value) ==
    NumValue(value.hi * 1000 + value.lo \div 1000, (value.lo % 1000) * 1000)

\* The numbers whose thousandfold the integers of the model hold.
HasThousandfold(value) == value.type = "num" /\ value.hi < 2000000

Called(call) == \E j \in 1..Len(results) : results[j].call = call

\* convert_timestamps_in_data called on the record.
ConvertCall ==
    /\ ~Called("convert")
    /\ results' = Append(results, [call |-> "convert",
                                   out |-> ConvertTimestampsInData(args.data)])
    /\ UNCHANGED <<batchVars, renderVars, storeVars, args>>

\* format_date_fr called on a field that is a timestamp in seconds, and on
\* the same moment in milliseconds.
FormatCall ==
    /\ ~Called("format")
    /\ IsTimestamp(args.data.x)
    /\ HasThousandfold(args.data.x)
    /\ results' = Append(results, [call |-> "format",
                                   of |-> args.data.x,
                                   out |-> FormatDateFr(args.data.x),
                                   ms |-> FormatDateFr(Times1000(args.data.x))])
    /\ UNCHANGED <<batchVars, renderVars, storeVars, args>>

\* convert_timestamps_in_data called on what its first call returned.
ConvertAgainCall ==
    /\ ~Called("again")
    /\ \E j \in 1..Len(results) :
          /\ results[j].call = "convert"
          /\ results' = Append(results,
                               [call |-> "again",
                                out |-> ConvertTimestampsInData(results[j].out)])
    /\ UNCHANGED <<batchVars, renderVars, storeVars, args>>

NextDates ==
    \/ ConvertCall
    \/ FormatCall
    \/ ConvertAgainCall

SpecDates == InitDates /\ [][NextDates]_vars

SpecName == InitName /\ [][NextName]_vars

\* ------------------------------------------------------ template storage
\* Most rows the templates table holds.
MaxTemplates == 2

\* The document ids of the callers, the names they give their templates,
\* and the contents they save.
DocIds == {<<"A">>, <<"A", "B">>, <<"A", "_", "B">>}

TemplateNames == {<<"x">>, <<"B", "_", "x">>, <<"B", " ", "x">>}

Contents == {"c1", "c2"}

\* str.isalnum on the characters of these names.
Alnum == {"A", "B", "x"}

\* _make_unique_name: the name cleaned of what is no letter, digit, blank,
\* hyphen or underscore, its blanks turned into underscores, and the
\* document id put before it with an underscore.
MakeUniqueName(template_name, doc_id) ==
    LET kept == SelectSeq(template_name, LAMBDA c : c \in Alnum \cup {" ", "-", "_"})
        stripped == RStrip(kept, Whitespace)
        safe_name == [j \in 1..Len(stripped) |->
                        IF stripped[j] = " " THEN "_" ELSE stripped[j]]
    IN  IF doc_id # <<>> /\ Strip(doc_id, Whitespace) # <<>>
        THEN doc_id \o <<"_">> \o safe_name
        ELSE safe_name

\* _strip_doc_id_prefix.
StripDocIdPrefix(unique_name, doc_id) ==
    IF doc_id # <<>> /\ StartsWith(unique_name, doc_id \o <<"_">>)
    THEN SubSeq(unique_name, Len(doc_id) + 2, Len(unique_name))
    ELSE unique_name

\* name LIKE pattern of SQL: an underscore of the pattern stands for any
\* one character, a percent sign for any characters.
RECURSIVE Like(_, _)
Like(name, pattern) ==
    IF pattern = <<>> THEN name = <<>>
    ELSE IF Head(pattern) = "%"
    THEN \E k \in 0..Len(name) : Like(SubSeq(name, k + 1, Len(name)), Tail(pattern))
    ELSE /\ name # <<>>
         /\ Head(pattern) = "_" \/ Head(pattern) = Head(name)
         /\ Like(Tail(name), Tail(pattern))

\* The rows of the table a query on name = unique_name gives: one at most,
\* name being UNIQUE.
RowsNamed(unique_name) ==
    {j \in 1..Len(templates) : templates[j].name = unique_name}

Without(rows, unique_name) == SelectSeq(rows, LAMBDA r : r.name # unique_name)

\* Who saved the rows at the positions js.
SavedBy(js) == {templates[j].by : j \in js}

\* save_template: the row of the unique name inserted, or updated if the
\* name is there (ON CONFLICT (name) DO UPDATE), its updated_at now.
SaveTemplate(doc_id, template_name, content) ==
    LET unique_name == MakeUniqueName(template_name, doc_id)
        hit == RowsNamed(unique_name)
    IN  /\ hit # {} \/ Len(templates) < MaxTemplates
        /\ templates' = <<[name |-> unique_name, content |-> content, by |-> doc_id]>>
                          \o Without(templates, unique_name)
        /\ answer' = [op |-> "save", doc |-> doc_id, found |-> SavedBy(hit),
                      out |-> <<>>]
        /\ UNCHANGED <<batchVars, renderVars, pureVars>>

\* load_template: the row of the unique name, or FileNotFoundError.
LoadTemplate(doc_id, template_name) ==
    LET hit == RowsNamed(MakeUniqueName(template_name, doc_id))
    IN  /\ answer' = [op |-> "load", doc |-> doc_id, found |-> SavedBy(hit),
                      out |-> [j \in 1..Cardinality(hit) |-> template_name]]
        /\ UNCHANGED <<batchVars, renderVars, pureVars, templates>>

\* delete_template: the row of the unique name deleted, or
\* FileNotFoundError.
DeleteTemplate(doc_id, template_name) ==
    LET unique_name == MakeUniqueName(template_name, doc_id)
        hit == RowsNamed(unique_name)
    IN  /\ templates' = Without(templates, unique_name)
        /\ answer' = [op |-> "delete", doc |-> doc_id, found |-> SavedBy(hit),
                      out |-> <<>>]
        /\ UNCHANGED <<batchVars, renderVars, pureVars>>

\* list_templates(doc_id): the names LIKE doc_id_%, last updated first,
\* each through _strip_doc_id_prefix.
ListTemplates(doc_id) ==
    LET pattern == doc_id \o <<"_", "%">>
        hit == {j \in 1..Len(templates) : Like(templates[j].name, pattern)}
        rows == SelectSeq(templates, LAMBDA r : Like(r.name, pattern))
    IN  /\ answer' = [op |-> "list", doc |-> doc_id, found |-> SavedBy(hit),
                      out |-> [j \in 1..Len(rows) |->
                                  StripDocIdPrefix(rows[j].name, doc_id)]]
        /\ UNCHANGED <<batchVars, renderVars, pureVars, templates>>

NextStore ==
    \E doc_id \in DocIds :
        \/ \E template_name \in TemplateNames, content \in Contents :
              SaveTemplate(doc_id, template_name, content)
        \/ \E template_name \in TemplateNames : LoadTemplate(doc_id, template_name)
        \/ \E template_name \in TemplateNames : DeleteTemplate(doc_id, template_name)
        \/ ListTemplates(doc_id)

SpecStore == Init /\ [][NextStore]_vars

\* One thread makes calls, with the full bounds.
Next ==
    \/ BatchStart(1, MaxRecords)
    \/ BatchRecord(1, MaxStarts, RecordFailures)
    \/ BatchEscape(1)
    \/ BatchFinally(1)
    \/ BatchReturn(1)
    \/ GeneratePdf(1, MaxStarts)
    \/ PdfReturn(1)

Spec == Init /\ [][Next]_vars

\* The steps a call takes by itself once it is entered. A request is the
\* client's to send or not: nothing makes a batch follow a single PDF.
CallSteps ==
    \/ BatchRecord(1, MaxStarts, RecordFailures)
    \/ BatchFinally(1)
    \/ BatchReturn(1)
    \/ PdfReturn(1)

\* The same thread, every call it entered going on to its end.
SpecLive == Init /\ [][Next]_vars /\ WF_vars(CallSteps)

\* Every thread makes calls, interleaved record by record.
NextThreads ==
    \E t \in Threads :
        \/ BatchStart(t, MaxThreadRecords)
        \/ BatchRecord(t, MaxThreadStarts, RecordFailures)
        \/ BatchEscape(t)
        \/ BatchFinally(t)
        \/ BatchReturn(t)
        \/ GeneratePdf(t, MaxThreadStarts)
        \/ PdfReturn(t)

SpecThreads == Init /\ [][NextThreads]_vars

\* One thread makes calls, and what page.pdf leaves on disk is followed.
NextFiles ==
    \/ BatchStartPattern(1, MaxFileRecords)
    \/ BatchRecord(1, MaxFileStarts, RecordFileOutcomes)
    \/ BatchEscape(1)
    \/ BatchFinally(1)
    \/ BatchReturn(1)
    \/ GeneratePdfFile(1, MaxFileStarts)
    \/ PdfReturn(1)

SpecFiles == Init /\ [][NextFiles]_vars

\* ---------------------------------------------------------------- claims
\* The sequence 1, 2, ..., len.
Indices(len) == [j \in 1..len |-> j]

\* The paths of the records from .. to that are in ok, in input order.
RECURSIVE SuccessPaths(_, _, _)
SuccessPaths(ok, from, to) ==
    IF from > to THEN <<>>
    ELSE (IF from \in ok THEN <<OutputPath(from)>> ELSE <<>>)
         \o SuccessPaths(ok, from + 1, to)

Range(seq) == {seq[j] : j \in 1..Len(seq)}

InBatch(t) == pc[t] \in {"loop", "escaping", "returned", "raised"}

BatchOver(t) == pc[t] \in {"returned", "raised"}

\* C1: whichever records of a batch fail in their filename, their markup or
\* their PDF, the failure of a record never leaves the record loop, and
\* unless something other than a record's failure interrupts the loop the
\* call returns its list after having attempted records 1..n in that order.
C1_EveryRecordAttempted ==
    \A t \in Threads :
        /\ pc[t] = "escaping" => escaped[t] = "loop"
        /\ (BatchOver(t) /\ escaped[t] # "loop") =>
              /\ pc[t] = "returned"
              /\ attempted[t] = Indices(n[t])

\* A batch of MaxRecords records has returned; all but its last record
\* failed, and all were attempted.
C1_Witness ==
    /\ pc[1] = "returned"
    /\ n[1] = MaxRecords
    /\ okRecs[1] = {MaxRecords}
    /\ attempted[1] = Indices(MaxRecords)

\* C2: the list of a batch holds the paths of exactly the records whose
\* filename, markup and PDF steps all returned, one path per such record,
\* in input order; so its length is the number of those records.
C2_ReturnsSuccessfulPaths ==
    \A t \in Threads :
        InBatch(t) =>
            /\ generated_files[t] = SuccessPaths(okRecs[t], 1, n[t])
            /\ Len(generated_files[t]) = Cardinality(okRecs[t])

\* A batch of three records has returned the paths of the first and the
\* third, the second having failed.
C2_Witness ==
    /\ pc[1] = "returned"
    /\ n[1] = 3
    /\ okRecs[1] = {1, 3}
    /\ generated_files[1] = <<OutputPath(1), OutputPath(3)>>

\* C3: a batch that entered its record loop calls _cleanup_thread_browser
\* exactly once: not while records are attempted, and once by the time the
\* call returns or lets an exception through.
C3_TeardownExactlyOnce ==
    \A t \in Threads :
        /\ pc[t] \in {"loop", "escaping"} => cleanups[t] = 0
        /\ BatchOver(t) => cleanups[t] = 1

\* An exception left the loop after a record was attempted, and the
\* teardown has run once before the exception reaches the caller.
C3_Witness ==
    /\ pc[1] = "raised"
    /\ escaped[1] = "loop"
    /\ Len(attempted[1]) >= 1
    /\ Len(attempted[1]) < n[1]
    /\ cleanups[1] = 1

\* C4: however many generate_pdf calls a thread makes with no teardown in
\* between, it has started the engine at most once.
C4_EngineStartedOnce ==
    \A t \in Threads :
        pc[t] \in {"pdf_returned", "pdf_raised"} => starts[t] <= 1

\* C5: a thread opens pages on, and closes, only what it created itself,
\* and the attributes of a thread hold only what that thread created.
C5_OwnSessionOnly ==
    /\ \A u \in uses : u.thr = u.by
    /\ \A s \in Threads :
          \A a \in {"playwright", "browser", "context"} :
              tlocal[s][a].by \in {0, s}

\* Two threads are in a call at once, one in a batch and one in a single
\* PDF, each having opened a page on its own context.
C5_Witness ==
    /\ pc[1] = "loop"
    /\ pc[2] = "pdf_returned"
    /\ tlocal[1].context = Handle(1, 1)
    /\ tlocal[2].context = Handle(2, 1)
    /\ uses = {[thr |-> 1, by |-> 1], [thr |-> 2, by |-> 2]}

\* C6: after the teardown of a batch, the release of every browser and
\* controller that was held has been attempted, whichever step raised: what
\* is still held is held because its own release raised.
C6_EveryReleaseAttempted ==
    \A t \in Threads :
        (BatchOver(t) /\ cleanups[t] = 1) =>
            /\ tlocal[t].browser # None => "browser" \in Range(cleanupLog[t])
            /\ tlocal[t].playwright # None => "playwright" \in Range(cleanupLog[t])

\* C7: a teardown step that raises is not propagated: the batch still
\* returns, and returns the paths of the records that succeeded.
C7_TeardownFailureSwallowed ==
    \A t \in Threads :
        (BatchOver(t) /\ cleanupFail[t] # "none" /\ escaped[t] = "no") =>
            /\ pc[t] = "returned"
            /\ generated_files[t] = SuccessPaths(okRecs[t], 1, n[t])

\* A batch has returned a path although browser.close raised in its
\* teardown.
C7_Witness ==
    /\ pc[1] = "returned"
    /\ cleanupFail[1] = "browser"
    /\ generated_files[1] # <<>>

\* C8: a call in which the engine could not be started does not return
\* normally, and does not try to start the engine a second time.
C8_EngineFailurePropagates ==
    \A t \in Threads :
        /\ pc[t] \in {"returned", "pdf_returned"} => engineFails[t] = 0
        /\ engineFails[t] <= 1

\* A template with an include directive or a reflection-style access.
Forbidden(content) ==
    \E j \in 1..Len(content) : content[j] \in {Include, Reflect}

\* C9: a request whose template holds a forbidden construct fails in
\* generate_html with an error and no markup, and never reaches the engine.
C9_ForbiddenTemplateRefused ==
    (Forbidden(reqTemplate) /\ phase # "request") =>
        /\ phase = "failed"
        /\ ~reqHtml.ok
        /\ reqHtml.error # "none"
        /\ reqHtml.markup = <<>>

\* C10: no markup-unsafe character of a record value stands unescaped in
\* the content generate_html puts in the document.
C10_ValuesEscaped ==
    reqHtml.ok => \A j \in 1..Len(reqHtml.body) : reqHtml.body[j] \notin UnsafeChars

\* C11: whichever page call of generate_pdf fails, no thread has a page
\* open once a generate_pdf call of its own, standalone or of a batch, has
\* returned or raised.
C11_PagesClosed ==
    \A t \in Threads : pages[t] = 0

\* A standalone generate_pdf call has raised on a load timeout, after it
\* had opened a page on the thread's context, and no page is open.
C11_Witness ==
    /\ pc[1] = "pdf_raised"
    /\ pdfFail[1] = "load"
    /\ [thr |-> 1, by |-> 1] \in uses
    /\ pages[1] = 0

\* C12: a standalone generate_pdf call returns its path only if the file
\* at that path exists and has bytes, and a call in which page.pdf
\* returned without having written a file does not return.
C12_ReturnsNonEmptyFile ==
    \A t \in Threads :
        pc[t] = "pdf_returned" =>
            /\ SinglePath \in fs
            /\ SinglePath \notin emptyFiles
            /\ pdfFail[t] # "nofile"

\* C14: generate_filename_from_pattern gives a name for every pattern,
\* record and index; two calls on the same arguments give the same name,
\* and the name ends in the .pdf extension (in letters of either case).
C14_DeterministicPdfName ==
    /\ \A j \in 1..Len(results) :
          /\ results[j].ok
          /\ EndsWith(Lower(results[j].name), DotPdf)
    /\ Len(results) = 2 => results[1] = results[2]

\* C13: in a batch, whatever its pattern, no two records whose document
\* was produced have the same file, and the returned list holds no path
\* twice.
C13_OneFilePerRecord ==
    \A t \in Threads :
        InBatch(t) =>
            /\ \A a, b \in okRecs[t] : a # b => names[t][a].name # names[t][b].name
            /\ \A a, b \in 1..Len(generated_files[t]) :
                   a # b => generated_files[t][a] # generated_files[t][b]

\* C15: no name that generate_filename_from_pattern returns holds one of
\* the characters < > : " / \ | ? * or a control character, whatever the
\* pattern, the record and the index, and whatever the field values put
\* into it.
C15_NoInvalidCharacter ==
    \A j \in 1..Len(results) :
        results[j].ok =>
            \A k \in 1..Len(results[j].name) : results[j].name[k] \notin InvalidChars

\* A field value with a slash went into the name, and the name has an
\* underscore in its place.
C15_Witness ==
    /\ args.pattern = <<"{", "x", "}">>
    /\ args.data = <<Item(<<"x">>, StrValue(<<"a", "/", "b">>))>>
    /\ Len(results) >= 1
    /\ results[1] = [ok |-> TRUE, name |-> <<"a", "_", "b">> \o DotPdf]

\* The text that C16 has put in the place of a field's placeholder: the
\* string form of the value, 'vide' for None and for the empty string.
C16_Text(value) ==
    IF value.type = "none" \/ (value.type = "str" /\ value.s = <<>>)
    THEN Vide
    ELSE Strip(StrOf(value), Whitespace)

RECURSIVE C16_Fill(_, _)
C16_Fill(filename, items) ==
    IF items = <<>> THEN filename
    ELSE C16_Fill(Replace(filename, <<"{">> \o Head(items).key \o <<"}">>,
                          C16_Text(Head(items).value)),
                  Tail(items))

C16_Name ==
    LET given == IF Strip(args.pattern, Whitespace) = <<>> THEN Document
                 ELSE Strip(args.pattern, Whitespace)
        indexed == IF args.index # NoIndex
                   THEN Replace(given, IndexPlaceholder, Digits(args.index, 1))
                   ELSE given
        filled == C16_Fill(indexed, args.data)
    IN  WithExtension(SanitizeFilename(CollapseRuns(filled, Whitespace, "_")))

\* C16: generate_filename_from_pattern returns the name made of the
\* pattern with each {field} replaced by the string form of the field's
\* value, 'vide' only for an empty or null value, and {index} replaced by
\* the index; 'invoice_{client}_{index}' with client 'Acme' and index 3
\* gives 'invoice_Acme_3.pdf'.
C16_FieldsSubstituted ==
    /\ \A j \in 1..Len(results) : results[j] = [ok |-> TRUE, name |-> C16_Name]
    /\ (/\ args.pattern = ExamplePattern
        /\ args.data = <<Item(<<"c", "l", "i", "e", "n", "t">>, StrValue(Acme))>>
        /\ args.index = 3)
       => \A j \in 1..Len(results) :
              results[j].name =
                  <<"i", "n", "v", "o", "i", "c", "e", "_", "A", "c", "m", "e", "_", "3">>
                  \o DotPdf

\* C17: for an empty, whitespace-only or null pattern,
\* generate_filename_from_pattern returns 'document.pdf', whatever the
\* record and the index.
C17_EmptyPatternDefault ==
    Strip(args.pattern, Whitespace) = <<>> =>
        \A j \in 1..Len(results) :
            results[j] = [ok |-> TRUE, name |-> Document \o DotPdf]

\* C18: a name that generate_filename_from_pattern returns has at most 200
\* characters, its extension included.
C18_AtMostMaxNameLength ==
    \A j \in 1..Len(results) :
        results[j].ok => Len(results[j].name) <= MaxNameLength

\* The shape DD/MM/YYYY of a string value.
IsDateString(value) ==
    /\ value.type = "str"
    /\ Len(value.s) = 10
    /\ \A k \in 1..10 :
          IF k \in {3, 6} THEN value.s[k] = "/"
          ELSE value.s[k] \in {"0", "1", "2", "3", "4", "5", "6", "7", "8", "9"}

\* C19: convert_timestamps_in_data replaces a field by a date string
\* exactly when its value is a number, no boolean, from 946684800 to
\* 4000000000000, both included; every other value is copied unchanged.
C19_ConvertsExactlyTimestamps ==
    \A j \in 1..Len(results) :
        results[j].call = "convert" =>
            \A f \in DOMAIN args.data :
                IF /\ args.data[f].type = "num"
                   /\ NumLeq(NumValue(946, 684800), args.data[f])
                   /\ NumLeq(args.data[f], NumValue(4000000, 0))
                THEN IsDateString(results[j].out[f])
                ELSE results[j].out[f] = args.data[f]

\* The record with the upper bound and a boolean has been converted: the
\* bound is a date, the boolean is itself.
C19_Witness ==
    /\ args.data = [x |-> NumValue(4000000, 0), y |-> BoolValue(TRUE)]
    /\ Len(results) >= 1
    /\ results[1].call = "convert"
    /\ results[1].out.x = StrValue(<<"0", "2", "/", "1", "0", "/", "2", "0", "9", "6">>)
    /\ results[1].out.y = BoolValue(TRUE)

\* C20 as stated: for every value s in seconds that is_timestamp accepts,
\* format_date_fr gives the same date for s and for 1000 * s.
C20_SameDateForEveryTimestamp ==
    \A j \in 1..Len(results) :
        results[j].call = "format" => results[j].out = results[j].ms

\* C20: for every value s from 946684800 to 10000000000, format_date_fr
\* gives the same DD/MM/YYYY date for s and for 1000 * s; a value above
\* 10000000000 is itself read as milliseconds.
C20_SameDateUpToThreshold ==
    \A j \in 1..Len(results) :
        (results[j].call = "format" /\ NumLeq(results[j].of, NumValue(10000, 0))) =>
            /\ IsDateString(results[j].out)
            /\ results[j].out = results[j].ms

\* The two values of the documentation gave the same date.
C20_Witness ==
    \E j \in 1..Len(results) :
        /\ results[j].call = "format"
        /\ results[j].of = NumValue(1700, 0)
        /\ results[j].out = StrValue(<<"1", "4", "/", "1", "1", "/", "2", "0", "2", "3">>)
        /\ results[j].ms = results[j].out

\* C21: convert_timestamps_in_data applied to its own result gives that
\* result again, for every record.
C21_ConvertIdempotent ==
    \A j, k \in 1..Len(results) :
        (results[j].call = "convert" /\ results[k].call = "again") =>
            results[k].out = results[j].out

\* A record with a timestamp in milliseconds and one in seconds has been
\* converted twice, and holds the two dates.
C21_Witness ==
    /\ args.data = [x |-> NumValue(1700000, 0), y |-> NumValue(946, 684800)]
    /\ \E k \in 1..Len(results) :
          /\ results[k].call = "again"
          /\ results[k].out.x = StrValue(<<"1", "4", "/", "1", "1", "/", "2", "0", "2", "3">>)
          /\ results[k].out.y = StrValue(<<"0", "1", "/", "0", "1", "/", "2", "0", "0", "0">>)

\* C22: the pipeline leaves the record it is given as it was: once
\* generate_html (and render_template and convert_timestamps_in_data in
\* it) is over, the caller's record has the field names and the values
\* the request carried.
C22_RecordUnchanged ==
    phase # "request" => record_data = reqRecord

\* The template has no placeholder and no directive.
NoPlaceholder ==
    \A j \in 1..Len(reqTemplate) :
        reqTemplate[j] \in {Text, Element, ColorStyle, EmptyStyle, Newline}

\* generate_html gives the same for the request's template and assets
\* whatever the record.
SameForAnyRecord ==
    \A r \in RenderRecords : GenerateHtml(reqTemplate, "css", r, reqAssets) = reqHtml

C23_Body ==
    LET n0 == Len(reqTemplate)
        source == IF n0 > 0 /\ reqTemplate[n0] = Newline
                  THEN SubSeq(reqTemplate, 1, n0 - 1) ELSE reqTemplate
        kept == SelectSeq(source, LAMBDA c : c # ColorStyle)
    IN  [j \in 1..Len(kept) |-> IF kept[j] = EmptyStyle THEN " " ELSE kept[j]]

C24_SessionEventuallyDestroyed ==
    \A t \in Threads :
        (tlocal[t].context # None)
            ~> (tlocal[t].context = None \/ cleanupFail[t] # "none")

\* C26: once _cleanup_thread_browser has returned, whichever of its steps
\* raised, the thread holds no context, no browser and no controller.
C26_NothingHeldAfterTeardown ==
    \A t \in Threads :
        (BatchOver(t) /\ cleanups[t] = 1) =>
            /\ tlocal[t].context = None
            /\ tlocal[t].browser = None
            /\ tlocal[t].playwright = None

\* C27: _get_browser_context starts a controller (and launches a browser)
\* only on a thread that holds none: no step starts one while the
\* thread's attributes still hold a controller or a browser.
C27_NoStartWhileHeld ==
    [][\A t \in Threads :
          starts'[t] > starts[t] =>
              /\ tlocal[t].playwright = None
              /\ tlocal[t].browser = None]_vars

\* C28: two batches running at once on different threads do not touch
\* each other's files: no path is in the lists of both, and the files a
\* batch returns are still there when its route comes to zip them.
C28_BatchesDoNotInterfere ==
    \A t, u \in Threads :
        /\ (t # u /\ InBatch(t) /\ InBatch(u)) =>
               Range(generated_files[t]) \cap Range(generated_files[u]) = {}
        /\ pc[t] = "returned" => Range(generated_files[t]) \subseteq fs

Reverse(seq) == [j \in 1..Len(seq) |-> seq[Len(seq) + 1 - j]]

\* C29: the name generate_filename_from_pattern returns does not depend
\* on the order of the record's fields: a placeholder that a field's value
\* brings in is not filled by a later field.
C29_OrderIndependent ==
    \A j \in 1..Len(results) :
        results[j] = GenerateFilenameFromPattern(args.pattern, Reverse(args.data),
                                                 args.index)

\* C30: generate_filename_from_pattern returns a name and never raises,
\* for every pattern and every record of strings, numbers, booleans and
\* None, strings with a backslash before a letter or a digit included.
C30_NeverRaises ==
    \A j \in 1..Len(results) : results[j].ok

\* C25: whatever was saved, deleted and listed before, a call of the
\* template storage with document id D reads, lists, deletes and
\* overwrites only templates that were saved with D.
C25_IsolatedByDocId ==
    answer.found \subseteq {answer.doc}

====
